---- MODULE Spec2Model ----
(* GopherDrive: the bounded worker pool (internal/worker/pool.go), the      *)
(* results consumer and the shutdown sequence of main.                      *)
EXTENDS Naturals, Sequences, FiniteSets

\* ---------------------------------------------------------------- bounds
\* Worker count handed to NewPool (numWorkers = 5 in the shipped wiring).
NumWorkers == 1
\* Number of Submit calls (one upload request each) in a run.
MaxJobs == 3

Workers == 1..NumWorkers
Ids == 1..MaxJobs

\* Mutant: the job channel made one slot too large.
JobsCapOffByOne == 2 * NumWorkers + 1

\* make(chan Job, workers*2)
JobsCap == 2 * NumWorkers
\* make(chan Result, workers*2)
ResultsCap == 2 * NumWorkers

VARIABLES
    startI,         \* Start: number of workers launched so far
    wg,             \* Pool.wg counter
    jobs,           \* Pool.jobs buffer, a sequence of job ids
    jobsClosed,     \* close(p.jobs) has run
    results,        \* Pool.results buffer, a sequence of Results
    resultsClosed,  \* close(p.results) has run
    ctxDone,        \* Pool.ctx is cancelled
    wpc,            \* worker -> position in worker/process
    wjob,           \* worker -> id of the job it holds (0: none)
    werr,           \* worker -> ComputeMetadata returned an error
    wres,           \* worker -> kind of the Result it is about to push
    wcan,           \* worker -> the Ctx of the job it holds is cancelled
    rpc,            \* request id -> position of its Submit call
    sdPc,           \* position of the Shutdown call
    cpc,            \* position of handleResults
    atClose,        \* id -> where its Submit call stood when close(p.jobs) ran (instrumentation)
    atCancel,       \* id -> whether Submit was called for it before p.ctx was cancelled (instrumentation)
    deq,            \* id -> times a worker dequeued it        (instrumentation)
    pushed,         \* id -> times a Result for it was pushed  (instrumentation)
    seen,           \* id -> times the consumer received it    (instrumentation)
    mpc,            \* position of main in its shutdown sequence
    cur,            \* the Result handleResults is working on (NoResult: none)
    rec,            \* id -> the file record in the repository
    calls,          \* id -> repository calls handleResults made for it (instrumentation)
    content,        \* the bytes of the file at the analyzed path
    path,           \* the filePath argument of ComputeMetadata
    hpc,            \* run -> position of a ComputeMetadata call
    off,            \* run -> read offset of the call's open file f
    hmime,          \* run -> mimeType detected from the head (<<>>: not yet)
    hsum,           \* run -> state of the call's hasher h
    hmeta           \* run -> the *Metadata being built / returned

vars == <<startI, wg, jobs, jobsClosed, results, resultsClosed, ctxDone, wpc,
          wjob, werr, wres, wcan, rpc, sdPc, cpc, atClose, atCancel, deq, pushed, seen,
          mpc, cur, rec, calls, content, path, hpc, off, hmime, hsum, hmeta>>

poolVars == <<jobs, jobsClosed, results, resultsClosed, ctxDone>>
workerVars == <<wpc, wjob, werr, wres, wcan>>
histVars == <<atClose, atCancel, deq, pushed, seen>>
mainVars == <<mpc, cur, rec, calls>>
hashVars == <<content, path, hpc, off, hmime, hsum, hmeta>>

RECURSIVE SumOver(_, _)
SumOver(f, S) ==
    IF S = {} THEN 0
    ELSE LET x == CHOOSE y \in S : TRUE IN f[x] + SumOver(f, S \ {x})

\* Result{FileID: id, Err/Hash...}: the kind stands for Err and the payload.
Result(id, kind) == [id |-> id, kind |-> kind]

NoResult == [id |-> 0, kind |-> "none"]

\* The row RegisterFile creates before the handler submits the job:
\* status "pending", no hash/size/metadata yet.
PendingRecord == [status |-> "pending", meta |-> FALSE]

\* Two ComputeMetadata calls (two jobs whose FilePath holds the same bytes).
Runs == {1, 2}

\* No *Metadata returned (yet).
NoMetadata == [hash |-> <<>>, size |-> 0, ext |-> <<>>, extra |-> <<>>]

\* ------------------------------------------------------------------ Init
\* State after NewPool: both channels open and empty, no worker launched.
PoolInit ==
    /\ startI = 0
    /\ wg = 0
    /\ jobs = <<>>
    /\ jobsClosed = FALSE
    /\ results = <<>>
    /\ resultsClosed = FALSE
    /\ ctxDone = FALSE
    /\ wpc = [w \in Workers |-> "idle"]
    /\ wjob = [w \in Workers |-> 0]
    /\ werr = [w \in Workers |-> FALSE]
    /\ wres = [w \in Workers |-> "none"]
    /\ wcan = [w \in Workers |-> FALSE]
    /\ rpc = [i \in Ids |-> "new"]
    /\ sdPc = "idle"
    /\ cpc = "recv"
    /\ atClose = [i \in Ids |-> "none"]
    /\ atCancel = [i \in Ids |-> "none"]
    /\ deq = [i \in Ids |-> 0]
    /\ pushed = [i \in Ids |-> 0]
    /\ seen = [i \in Ids |-> 0]
    /\ mpc = "serving"
    /\ cur = NoResult
    /\ rec = [i \in Ids |-> PendingRecord]
    /\ calls = [i \in Ids |-> <<>>]

\* No ComputeMetadata call is being followed.
HasherIdle ==
    /\ content = <<>>
    /\ path = <<>>
    /\ hpc = [r \in Runs |-> "idle"]
    /\ off = [r \in Runs |-> 0]
    /\ hmime = [r \in Runs |-> <<>>]
    /\ hsum = [r \in Runs |-> 0]
    /\ hmeta = [r \in Runs |-> NoMetadata]

Init == PoolInit /\ HasherIdle

\* ----------------------------------------------------------------- Start
\* One iteration of Start's loop: wg.Add(1); go p.worker(i).
Start ==
    /\ startI < NumWorkers
    /\ startI' = startI + 1
    /\ wg' = wg + 1
    /\ wpc' = [wpc EXCEPT ![startI + 1] = "select"]
    /\ UNCHANGED <<hashVars, mainVars, poolVars, wjob, werr, wres, wcan, rpc, sdPc, cpc, histVars>>

\* main calls pool.Start() before any caller of Submit or Shutdown exists.
Started == startI = NumWorkers

\* ---------------------------------------------------------------- Submit
\* A caller enters Submit with a job carrying a fresh id.
SubmitCall(id) ==
    /\ Started
    /\ rpc[id] = "new"
    /\ \A j \in Ids : j < id => rpc[j] # "new"
    /\ rpc' = [rpc EXCEPT ![id] = "submit"]
    /\ UNCHANGED <<hashVars, mainVars, startI, wg, poolVars, workerVars, sdPc, cpc, histVars>>

\* Mutant: the job channel unbounded, the send never waiting for room.
SubmitSendUnbounded(id) ==
    /\ rpc[id] = "submit"
    /\ ~jobsClosed
    /\ jobs' = Append(jobs, id)
    /\ rpc' = [rpc EXCEPT ![id] = "true"]
    /\ UNCHANGED <<hashVars, mainVars, startI, wg, jobsClosed, results, resultsClosed, ctxDone,
                   workerVars, sdPc, cpc, histVars>>

\* select case p.jobs <- job, the channel open with room: return true.
SubmitSend(id) ==
    /\ rpc[id] = "submit"
    /\ ~jobsClosed
    /\ Len(jobs) < JobsCap
    /\ jobs' = Append(jobs, id)
    /\ rpc' = [rpc EXCEPT ![id] = "true"]
    /\ UNCHANGED <<hashVars, mainVars, startI, wg, jobsClosed, results, resultsClosed, ctxDone,
                   workerVars, sdPc, cpc, histVars>>

\* select case p.jobs <- job on a closed channel: the send panics. The panic
\* unwinds the calling goroutine (net/http recovers it in an upload handler);
\* the pool's own goroutines go on.
SubmitPanic(id) ==
    /\ rpc[id] = "submit"
    /\ jobsClosed
    /\ rpc' = [rpc EXCEPT ![id] = "panic"]
    /\ UNCHANGED <<hashVars, mainVars, startI, wg, poolVars, workerVars, sdPc, cpc, histVars>>

\* select case <-p.ctx.Done(): return false.
SubmitCtxDone(id) ==
    /\ rpc[id] = "submit"
    /\ ctxDone
    /\ rpc' = [rpc EXCEPT ![id] = "false"]
    /\ UNCHANGED <<hashVars, mainVars, startI, wg, poolVars, workerVars, sdPc, cpc, histVars>>

\* ---------------------------------------------------------------- worker
\* Mutant: the result push is handed to a detached goroutine, so the worker
\* takes its next job while the previous Result is still unpushed.
WorkerDequeueDetachedPush(w) ==
    /\ wpc[w] \in {"select", "push"}
    /\ jobs # <<>>
    /\ jobs' = Tail(jobs)
    /\ wjob' = [wjob EXCEPT ![w] = Head(jobs)]
    /\ \E c \in BOOLEAN : wcan' = [wcan EXCEPT ![w] = c]
    /\ wpc' = [wpc EXCEPT ![w] = "precheck"]
    /\ deq' = [deq EXCEPT ![Head(jobs)] = @ + 1]
    /\ UNCHANGED <<hashVars, mainVars, startI, wg, jobsClosed, results, resultsClosed, ctxDone,
                   werr, wres, rpc, sdPc, cpc, atClose, atCancel, pushed, seen>>

\* select case job, ok := <-p.jobs with ok: take the head, call process.
\* The job's Ctx may have been cancelled by its owner before this point.
WorkerDequeue(w) ==
    /\ wpc[w] = "select"
    /\ jobs # <<>>
    /\ jobs' = Tail(jobs)
    /\ wjob' = [wjob EXCEPT ![w] = Head(jobs)]
    /\ \E c \in BOOLEAN : wcan' = [wcan EXCEPT ![w] = c]
    /\ wpc' = [wpc EXCEPT ![w] = "precheck"]
    /\ deq' = [deq EXCEPT ![Head(jobs)] = @ + 1]
    /\ UNCHANGED <<hashVars, mainVars, startI, wg, jobsClosed, results, resultsClosed, ctxDone,
                   werr, wres, rpc, sdPc, cpc, atClose, atCancel, pushed, seen>>

\* Mutant: the worker leaves as soon as the job channel is closed, without
\* draining the jobs still buffered.
WorkerExitNoDrain(w) ==
    /\ wpc[w] = "select"
    /\ jobsClosed
    /\ wpc' = [wpc EXCEPT ![w] = "exited"]
    /\ wg' = wg - 1
    /\ UNCHANGED <<hashVars, mainVars, startI, poolVars, wjob, werr, wres, wcan, rpc, sdPc, cpc, histVars>>

\* Mutant: the worker returns without wg.Done() (the defer left out).
WorkerExitNoDone(w) ==
    /\ wpc[w] = "select"
    /\ jobs = <<>>
    /\ jobsClosed
    /\ wpc' = [wpc EXCEPT ![w] = "exited"]
    /\ UNCHANGED <<hashVars, mainVars, startI, wg, poolVars, wjob, werr, wres, wcan, rpc, sdPc, cpc, histVars>>

\* select case <-p.jobs with !ok (closed and drained): return; wg.Done().
WorkerExit(w) ==
    /\ wpc[w] = "select"
    /\ jobs = <<>>
    /\ jobsClosed
    /\ wpc' = [wpc EXCEPT ![w] = "exited"]
    /\ wg' = wg - 1
    /\ UNCHANGED <<hashVars, mainVars, startI, poolVars, wjob, werr, wres, wcan, rpc, sdPc, cpc, histVars>>

\* select case <-p.ctx.Done(): return; wg.Done().
WorkerCtxDone(w) ==
    /\ wpc[w] = "select"
    /\ ctxDone
    /\ wpc' = [wpc EXCEPT ![w] = "exited"]
    /\ wg' = wg - 1
    /\ UNCHANGED <<hashVars, mainVars, startI, poolVars, wjob, werr, wres, wcan, rpc, sdPc, cpc, histVars>>

\* The owner of a job's Ctx cancels it while a worker is processing the job
\* (a cancellation after the last ctx.Err() check is never read).
CancelJob(w) ==
    /\ wpc[w] \in {"precheck", "postcheck"}
    /\ ~wcan[w]
    /\ wcan' = [wcan EXCEPT ![w] = TRUE]
    /\ UNCHANGED <<hashVars, mainVars, startI, wg, poolVars, wpc, wjob, werr, wres, rpc, sdPc, cpc, histVars>>

\* Mutant: the pre-flight cancellation check returns without pushing a Result.
ProcessPrecheckDrop(w) ==
    /\ wpc[w] = "precheck"
    /\ IF wcan[w]
         THEN /\ wcan' = [wcan EXCEPT ![w] = FALSE]
              /\ wjob' = [wjob EXCEPT ![w] = 0]
              /\ wpc' = [wpc EXCEPT ![w] = "select"]
              /\ werr' = werr
         ELSE /\ \E e \in BOOLEAN : werr' = [werr EXCEPT ![w] = e]
              /\ wpc' = [wpc EXCEPT ![w] = "postcheck"]
              /\ UNCHANGED <<wjob, wcan>>
    /\ UNCHANGED <<hashVars, mainVars, startI, wg, poolVars, wres, rpc, sdPc, cpc, histVars>>

\* Mutant: process without the pre-flight ctx.Err() check.
ProcessPrecheckNoCheck(w) ==
    /\ wpc[w] = "precheck"
    /\ \E e \in BOOLEAN : werr' = [werr EXCEPT ![w] = e]
    /\ wpc' = [wpc EXCEPT ![w] = "postcheck"]
    /\ UNCHANGED <<hashVars, mainVars, startI, wg, poolVars, wjob, wres, wcan, rpc, sdPc, cpc, histVars>>

\* process up to the return of the analyzer:
\*   if err := ctx.Err(); err != nil { push "cancelled before"; return }
\*   meta, err := hasher.ComputeMetadata(job.FilePath)
ProcessPrecheck(w) ==
    /\ wpc[w] = "precheck"
    /\ IF wcan[w]
         THEN /\ wres' = [wres EXCEPT ![w] = "cancelled_before"]
              /\ wcan' = [wcan EXCEPT ![w] = FALSE]
              /\ wpc' = [wpc EXCEPT ![w] = "push"]
              /\ werr' = werr
         ELSE /\ \E e \in BOOLEAN : werr' = [werr EXCEPT ![w] = e]
              /\ wpc' = [wpc EXCEPT ![w] = "postcheck"]
              /\ UNCHANGED <<wres, wcan>>
    /\ UNCHANGED <<hashVars, mainVars, startI, wg, poolVars, wjob, rpc, sdPc, cpc, histVars>>

\* Mutant: the analyzer's error is tested before the cancellation check.
ResultKindErrFirst(isCancelled, err) ==
    IF err THEN "error"
    ELSE IF isCancelled THEN "cancelled_during"
    ELSE "success"

\* The Result process builds after the analysis: the cancellation check comes
\* first, then the analyzer's error, then success.
ResultKind(isCancelled, err) ==
    IF isCancelled THEN "cancelled_during"
    ELSE IF err THEN "error"
    ELSE "success"

\* Mutant: an analyzer error ends the worker goroutine instead of becoming a
\* Failure Result.
ProcessPostcheckErrExit(w) ==
    /\ wpc[w] = "postcheck"
    /\ IF werr[w]
         THEN /\ wpc' = [wpc EXCEPT ![w] = "exited"]
              /\ wg' = wg - 1
              /\ wres' = wres
         ELSE /\ wres' = [wres EXCEPT ![w] = ResultKind(wcan[w], werr[w])]
              /\ wpc' = [wpc EXCEPT ![w] = "push"]
              /\ wg' = wg
    /\ werr' = [werr EXCEPT ![w] = FALSE]
    /\ wcan' = [wcan EXCEPT ![w] = FALSE]
    /\ UNCHANGED <<hashVars, mainVars, startI, poolVars, wjob, rpc, sdPc, cpc, histVars>>

\* process after the analyzer returned: if ctx.Err() != nil {...}; if err != nil {...}
ProcessPostcheck(w) ==
    /\ wpc[w] = "postcheck"
    /\ wres' = [wres EXCEPT ![w] = ResultKind(wcan[w], werr[w])]
    /\ werr' = [werr EXCEPT ![w] = FALSE]
    /\ wcan' = [wcan EXCEPT ![w] = FALSE]
    /\ wpc' = [wpc EXCEPT ![w] = "push"]
    /\ UNCHANGED <<hashVars, mainVars, startI, wg, poolVars, wjob, rpc, sdPc, cpc, histVars>>

\* Mutant: a non-blocking push (select with default) that drops the Result
\* when the result buffer is full.
ProcessPushDrop(w) ==
    /\ wpc[w] = "push"
    /\ IF resultsClosed
         THEN /\ wpc' = [wpc EXCEPT ![w] = "panic"]
              /\ UNCHANGED <<results, wjob, wres, pushed>>
         ELSE /\ IF Len(results) < ResultsCap
                   THEN /\ results' = Append(results, Result(wjob[w], wres[w]))
                        /\ pushed' = [pushed EXCEPT ![wjob[w]] = @ + 1]
                   ELSE UNCHANGED <<results, pushed>>
              /\ wjob' = [wjob EXCEPT ![w] = 0]
              /\ wres' = [wres EXCEPT ![w] = "none"]
              /\ wpc' = [wpc EXCEPT ![w] = "select"]
    /\ UNCHANGED <<hashVars, mainVars, startI, wg, jobs, jobsClosed, resultsClosed, ctxDone, werr, wcan,
                   rpc, sdPc, cpc, atClose, atCancel, deq, seen>>

\* Mutant: the push inside a select with a <-p.ctx.Done() case, which gives
\* the Result up once the pool context is cancelled.
ProcessPushOrCtxDone(w) ==
    /\ wpc[w] = "push"
    /\ resultsClosed \/ Len(results) < ResultsCap \/ ctxDone
    /\ IF resultsClosed
         THEN /\ wpc' = [wpc EXCEPT ![w] = "panic"]
              /\ UNCHANGED <<results, wjob, wres, pushed>>
         ELSE /\ IF Len(results) < ResultsCap
                   THEN /\ results' = Append(results, Result(wjob[w], wres[w]))
                        /\ pushed' = [pushed EXCEPT ![wjob[w]] = @ + 1]
                   ELSE UNCHANGED <<results, pushed>>
              /\ wjob' = [wjob EXCEPT ![w] = 0]
              /\ wres' = [wres EXCEPT ![w] = "none"]
              /\ wpc' = [wpc EXCEPT ![w] = "select"]
    /\ UNCHANGED <<hashVars, mainVars, startI, wg, jobs, jobsClosed, resultsClosed, ctxDone, werr, wcan,
                   rpc, sdPc, cpc, atClose, atCancel, deq, seen>>

\* p.results <- Result{...}: blocks while the buffer is full, panics on a
\* closed channel; process then returns to the worker loop.
ProcessPush(w) ==
    /\ wpc[w] = "push"
    /\ resultsClosed \/ Len(results) < ResultsCap
    /\ IF resultsClosed
         THEN /\ wpc' = [wpc EXCEPT ![w] = "panic"]
              /\ UNCHANGED <<results, wjob, wres, pushed>>
         ELSE /\ results' = Append(results, Result(wjob[w], wres[w]))
              /\ pushed' = [pushed EXCEPT ![wjob[w]] = @ + 1]
              /\ wjob' = [wjob EXCEPT ![w] = 0]
              /\ wres' = [wres EXCEPT ![w] = "none"]
              /\ wpc' = [wpc EXCEPT ![w] = "select"]
    /\ UNCHANGED <<hashVars, mainVars, startI, wg, jobs, jobsClosed, resultsClosed, ctxDone, werr, wcan,
                   rpc, sdPc, cpc, atClose, atCancel, deq, seen>>

\* -------------------------------------------------------------- Shutdown
\* close(p.jobs); closing a closed channel panics.
ShutdownCloseJobs ==
    /\ Started
    /\ sdPc = "idle"
    /\ IF jobsClosed
         THEN /\ sdPc' = "panic"
              /\ UNCHANGED <<jobsClosed, atClose>>
         ELSE /\ jobsClosed' = TRUE
              /\ sdPc' = "wait"
              /\ atClose' = [i \in Ids |->
                     IF rpc[i] = "submit" /\ Len(jobs) = JobsCap THEN "blocked"
                     ELSE rpc[i]]
    /\ UNCHANGED <<hashVars, mainVars, startI, wg, jobs, results, resultsClosed, ctxDone, workerVars,
                   rpc, cpc, atCancel, deq, pushed, seen>>

\* Mutant: Shutdown without the wg.Wait().
ShutdownNoWait ==
    /\ sdPc = "wait"
    /\ sdPc' = "closeResults"
    /\ UNCHANGED <<hashVars, mainVars, startI, wg, poolVars, workerVars, rpc, cpc, histVars>>

\* p.wg.Wait() returns once the counter is zero.
ShutdownWait ==
    /\ sdPc = "wait"
    /\ wg = 0
    /\ sdPc' = "closeResults"
    /\ UNCHANGED <<hashVars, mainVars, startI, wg, poolVars, workerVars, rpc, cpc, histVars>>

\* Mutant: close(p.results) placed before the wg.Wait().
ShutdownCloseResultsBeforeWait ==
    /\ sdPc \in {"wait", "closeResults"}
    /\ resultsClosed' = TRUE
    /\ sdPc' = "done"
    /\ UNCHANGED <<hashVars, mainVars, startI, wg, jobs, jobsClosed, results, ctxDone, workerVars,
                   rpc, cpc, histVars>>

\* close(p.results)
ShutdownCloseResults ==
    /\ sdPc = "closeResults"
    /\ resultsClosed' = TRUE
    /\ sdPc' = "done"
    /\ UNCHANGED <<hashVars, mainVars, startI, wg, jobs, jobsClosed, results, ctxDone, workerVars,
                   rpc, cpc, histVars>>

\* -------------------------------------------------------------- consumer
\* for res := range results: receive the head.
ConsumerRecv ==
    /\ cpc = "recv"
    /\ results # <<>>
    /\ results' = Tail(results)
    /\ seen' = [seen EXCEPT ![Head(results).id] = @ + 1]
    /\ UNCHANGED <<hashVars, mainVars, startI, wg, jobs, jobsClosed, resultsClosed, ctxDone, workerVars,
                   rpc, sdPc, cpc, atClose, atCancel, deq, pushed>>

\* Mutant: the consumer stops as soon as the stream is closed, leaving the
\* buffered results unread.
ConsumerDoneEarly ==
    /\ cpc = "recv"
    /\ resultsClosed
    /\ cpc' = "done"
    /\ UNCHANGED <<hashVars, mainVars, startI, wg, poolVars, workerVars, rpc, sdPc, histVars>>

\* range over a closed, drained channel ends; close(resultsDone).
ConsumerDone ==
    /\ cpc = "recv"
    /\ results = <<>>
    /\ resultsClosed
    /\ cpc' = "done"
    /\ UNCHANGED <<hashVars, mainVars, startI, wg, poolVars, workerVars, rpc, sdPc, histVars>>

\* ------------------------------------------------------------------ Next
\* NewPool stores cancel, and nothing in the repository invokes it: ctxDone
\* stays FALSE, so SubmitCtxDone and WorkerCtxDone are never enabled and are
\* left out of Next.
Next ==
    \/ Start
    \/ \E id \in Ids : SubmitCall(id)
    \/ \E id \in Ids : SubmitSend(id)
    \/ \E id \in Ids : SubmitPanic(id)
    \/ \E w \in Workers : WorkerDequeue(w)
    \/ \E w \in Workers : WorkerExit(w)
    \/ \E w \in Workers : ProcessPrecheck(w)
    \/ \E w \in Workers : CancelJob(w)
    \/ \E w \in Workers : ProcessPostcheck(w)
    \/ \E w \in Workers : ProcessPush(w)
    \/ ShutdownCloseJobs
    \/ ShutdownWait
    \/ ShutdownCloseResults
    \/ ConsumerRecv
    \/ ConsumerDone

Spec == Init /\ [][Next]_vars

\* The Go scheduler runs every runnable goroutine: the Start loop, each worker,
\* the Shutdown call once made and the consumer keep taking their next step.
\* Callers (Submit, Shutdown, job-context owners) are under no obligation.
WorkerStep(w) ==
    \/ WorkerDequeue(w)
    \/ WorkerExit(w)
    \/ ProcessPrecheck(w)
    \/ ProcessPostcheck(w)
    \/ ProcessPush(w)

Fairness ==
    /\ WF_vars(Start)
    /\ \A w \in Workers : WF_vars(WorkerStep(w))
    /\ WF_vars(ShutdownWait)
    /\ WF_vars(ShutdownCloseResults)
    /\ WF_vars(ConsumerRecv)
    /\ WF_vars(ConsumerDone)

FairSpec == Init /\ [][Next]_vars /\ Fairness

\* ------------------------------------------------- main and handleResults
\* Number of uploads whose handler reaches Submit in a run of the whole process.
MaxUploads == 2

\* sig := <-sigCh: the shutdown signal arrives while the servers are serving.
MainSignal ==
    /\ Started
    /\ mpc = "serving"
    /\ mpc' = "httpShutdown"
    /\ UNCHANGED <<hashVars, cur, rec, calls, startI, wg, poolVars, workerVars, rpc, sdPc, cpc, histVars>>

\* httpSrv.Shutdown(shutCtx) returns, cleanly or on its 10 s timeout (logged).
MainHttpShutdown ==
    /\ mpc = "httpShutdown"
    /\ mpc' = "grpcStop"
    /\ UNCHANGED <<hashVars, cur, rec, calls, startI, wg, poolVars, workerVars, rpc, sdPc, cpc, histVars>>

\* grpcSrv.GracefulStop() returns.
MainGrpcStop ==
    /\ mpc = "grpcStop"
    /\ mpc' = "poolShutdown"
    /\ UNCHANGED <<hashVars, cur, rec, calls, startI, wg, poolVars, workerVars, rpc, sdPc, cpc, histVars>>

\* pool.Shutdown() called by main: its first statement.
MainShutdownCloseJobs ==
    /\ mpc = "poolShutdown"
    /\ ShutdownCloseJobs

\* pool.Shutdown() has returned: "worker pool drained".
MainPoolDrained ==
    /\ mpc = "poolShutdown"
    /\ sdPc = "done"
    /\ mpc' = "waitResults"
    /\ UNCHANGED <<hashVars, cur, rec, calls, startI, wg, poolVars, workerVars, rpc, sdPc, cpc, histVars>>

\* Mutant: main without the receive from resultsDone.
MainResultsDoneNoWait ==
    /\ mpc = "waitResults"
    /\ mpc' = "release"
    /\ UNCHANGED <<hashVars, cur, rec, calls, startI, wg, poolVars, workerVars, rpc, sdPc, cpc, histVars>>

\* <-resultsDone: the results goroutine closed it when handleResults returned.
MainResultsDone ==
    /\ mpc = "waitResults"
    /\ cpc = "done"
    /\ mpc' = "release"
    /\ UNCHANGED <<hashVars, cur, rec, calls, startI, wg, poolVars, workerVars, rpc, sdPc, cpc, histVars>>

\* main returns; deferred repo.Close() runs (after shutCancel).
MainRepoClose ==
    /\ mpc = "release"
    /\ mpc' = "dbClose"
    /\ UNCHANGED <<hashVars, cur, rec, calls, startI, wg, poolVars, workerVars, rpc, sdPc, cpc, histVars>>

\* deferred db.Close() runs; the process ends.
MainDbClose ==
    /\ mpc = "dbClose"
    /\ mpc' = "exited"
    /\ UNCHANGED <<hashVars, cur, rec, calls, startI, wg, poolVars, workerVars, rpc, sdPc, cpc, histVars>>

\* The prepared statements, then the DB handle, are released.
RepoClosed == mpc \in {"dbClose", "exited"}
DbClosed == mpc = "exited"

\* An upload handler reaches h.pool.Submit; it may do so at any time, also
\* after httpSrv.Shutdown gave up waiting for it.
UploadSubmitCall(id) ==
    /\ id <= MaxUploads
    /\ SubmitCall(id)

\* The handler's job carries context.Background(), which is never cancelled.
UploadWorkerDequeue(w) ==
    /\ WorkerDequeue(w)
    /\ ~wcan'[w]

\* handleResults: res received from the range; the branch on res.Err follows.
HandleRecv ==
    /\ cpc = "recv"
    /\ results # <<>>
    /\ results' = Tail(results)
    /\ seen' = [seen EXCEPT ![Head(results).id] = @ + 1]
    /\ cur' = Head(results)
    /\ cpc' = IF Head(results).kind = "success" THEN "meta" ELSE "failed"
    /\ UNCHANGED <<hashVars, mpc, rec, calls, startI, wg, jobs, jobsClosed, resultsClosed, ctxDone,
                   workerVars, rpc, sdPc, atClose, atCancel, deq, pushed>>

Call(op, ok) == [op |-> op, ok |-> ok]

\* Mutant: the failure branch without its continue, falling through to the
\* success path.
HandleFailedFallThrough ==
    /\ cpc = "failed"
    /\ \E ok \in BOOLEAN :
          /\ calls' = [calls EXCEPT ![cur.id] = Append(@, Call("status_failed", ok))]
          /\ rec' = IF ok THEN [rec EXCEPT ![cur.id].status = "failed"] ELSE rec
    /\ cur' = cur
    /\ cpc' = "meta"
    /\ UNCHANGED <<hashVars, mpc, startI, wg, poolVars, workerVars, rpc, sdPc, histVars>>

\* Mutant: the consumer returns from handleResults when UpdateStatus fails.
HandleFailedStopOnError ==
    /\ cpc = "failed"
    /\ \E ok \in BOOLEAN :
          /\ calls' = [calls EXCEPT ![cur.id] = Append(@, Call("status_failed", ok))]
          /\ rec' = IF ok THEN [rec EXCEPT ![cur.id].status = "failed"] ELSE rec
          /\ cpc' = IF ok THEN "recv" ELSE "done"
    /\ cur' = NoResult
    /\ UNCHANGED <<hashVars, mpc, startI, wg, poolVars, workerVars, rpc, sdPc, histVars>>

\* res.Err != nil: repo.UpdateStatus(ctx, res.FileID, "failed"); an error is
\* logged; continue.
HandleFailed ==
    /\ cpc = "failed"
    /\ \E ok \in BOOLEAN :
          /\ calls' = [calls EXCEPT ![cur.id] = Append(@, Call("status_failed", ok))]
          /\ rec' = IF ok THEN [rec EXCEPT ![cur.id].status = "failed"] ELSE rec
    /\ cur' = NoResult
    /\ cpc' = "recv"
    /\ UNCHANGED <<hashVars, mpc, startI, wg, poolVars, workerVars, rpc, sdPc, histVars>>

\* Mutant: metadata and status written by one transactional update.
HandleMetaAtomic ==
    /\ cpc = "meta"
    /\ \E ok \in BOOLEAN :
          /\ calls' = [calls EXCEPT ![cur.id] = Append(@, Call("metadata", ok))]
          /\ rec' = IF ok THEN [rec EXCEPT ![cur.id] = [status |-> "completed", meta |-> TRUE]]
                    ELSE rec
    /\ cpc' = "recv"
    /\ cur' = NoResult
    /\ UNCHANGED <<hashVars, mpc, startI, wg, poolVars, workerVars, rpc, sdPc, histVars>>

\* Mutant: a failed UpdateMetadata handled like a Failure Result (the record
\* is then marked "failed").
HandleMetaMarkFailed ==
    /\ cpc = "meta"
    /\ \E ok \in BOOLEAN :
          /\ calls' = [calls EXCEPT ![cur.id] = Append(@, Call("metadata", ok))]
          /\ rec' = IF ok THEN [rec EXCEPT ![cur.id].meta = TRUE] ELSE rec
          /\ cpc' = IF ok THEN "status" ELSE "failed"
    /\ cur' = cur
    /\ UNCHANGED <<hashVars, mpc, startI, wg, poolVars, workerVars, rpc, sdPc, histVars>>

\* Mutant: the continue after a failed UpdateMetadata left out.
HandleMetaNoContinue ==
    /\ cpc = "meta"
    /\ \E ok \in BOOLEAN :
          /\ calls' = [calls EXCEPT ![cur.id] = Append(@, Call("metadata", ok))]
          /\ rec' = IF ok THEN [rec EXCEPT ![cur.id].meta = TRUE] ELSE rec
    /\ cpc' = "status"
    /\ cur' = cur
    /\ UNCHANGED <<hashVars, mpc, startI, wg, poolVars, workerVars, rpc, sdPc, histVars>>

\* repo.UpdateMetadata(ctx, res.FileID, res.Hash, res.Size, res.Metadata);
\* on error: log, continue.
HandleMeta ==
    /\ cpc = "meta"
    /\ \E ok \in BOOLEAN :
          /\ calls' = [calls EXCEPT ![cur.id] = Append(@, Call("metadata", ok))]
          /\ rec' = IF ok THEN [rec EXCEPT ![cur.id].meta = TRUE] ELSE rec
          /\ cpc' = IF ok THEN "status" ELSE "recv"
          /\ cur' = IF ok THEN cur ELSE NoResult
    /\ UNCHANGED <<hashVars, mpc, startI, wg, poolVars, workerVars, rpc, sdPc, histVars>>

\* repo.UpdateStatus(ctx, res.FileID, "completed"); an error is logged.
HandleCompleted ==
    /\ cpc = "status"
    /\ \E ok \in BOOLEAN :
          /\ calls' = [calls EXCEPT ![cur.id] = Append(@, Call("status_completed", ok))]
          /\ rec' = IF ok THEN [rec EXCEPT ![cur.id].status = "completed"] ELSE rec
    /\ cur' = NoResult
    /\ cpc' = "recv"
    /\ UNCHANGED <<hashVars, mpc, startI, wg, poolVars, workerVars, rpc, sdPc, histVars>>

\* The whole process as main wires it: upload handlers submit, the workers
\* process, handleResults persists, main runs the shutdown sequence.
MainNext ==
    \/ Start
    \/ \E id \in Ids : UploadSubmitCall(id)
    \/ \E id \in Ids : SubmitSend(id)
    \/ \E id \in Ids : SubmitPanic(id)
    \/ \E w \in Workers : UploadWorkerDequeue(w)
    \/ \E w \in Workers : WorkerExit(w)
    \/ \E w \in Workers : ProcessPrecheck(w)
    \/ \E w \in Workers : ProcessPostcheck(w)
    \/ \E w \in Workers : ProcessPush(w)
    \/ MainSignal
    \/ MainHttpShutdown
    \/ MainGrpcStop
    \/ MainShutdownCloseJobs
    \/ ShutdownWait
    \/ ShutdownCloseResults
    \/ MainPoolDrained
    \/ MainResultsDone
    \/ MainRepoClose
    \/ MainDbClose
    \/ HandleRecv
    \/ HandleFailed
    \/ HandleMeta
    \/ HandleCompleted
    \/ ConsumerDone

MainSpec == Init /\ [][MainNext]_vars

\* Every goroutine of the process keeps running and every repository and
\* server call returns; only the arrival of the signal and of uploads is free.
MainFairness ==
    /\ Fairness
    /\ WF_vars(MainHttpShutdown)
    /\ WF_vars(MainGrpcStop)
    /\ WF_vars(MainShutdownCloseJobs)
    /\ WF_vars(MainPoolDrained)
    /\ WF_vars(MainResultsDone)
    /\ WF_vars(MainRepoClose)
    /\ WF_vars(MainDbClose)
    /\ WF_vars(HandleRecv)
    /\ WF_vars(HandleFailed)
    /\ WF_vars(HandleMeta)
    /\ WF_vars(HandleCompleted)

FairMainSpec == Init /\ [][MainNext]_vars /\ MainFairness

\* ------------------------------------------------ Shutdown called twice
\* Mutant: closing a closed channel as a no-op, the second call going on to
\* its wg.Wait().
ShutdownAgainNoPanic ==
    /\ sdPc = "done"
    /\ sdPc' = "wait"
    /\ UNCHANGED <<hashVars, mainVars, startI, wg, poolVars, workerVars, rpc, cpc, histVars>>

\* Shutdown called again after the first call returned: its first statement,
\* close(p.jobs), runs on the closed channel and panics; wg.Wait() and
\* close(p.results) are not reached.
ShutdownAgain ==
    /\ sdPc = "done"
    /\ IF jobsClosed
         THEN /\ sdPc' = "panic"
              /\ UNCHANGED jobsClosed
         ELSE /\ jobsClosed' = TRUE
              /\ sdPc' = "wait"
    /\ UNCHANGED <<hashVars, mainVars, startI, wg, jobs, results, resultsClosed, ctxDone, workerVars,
                   rpc, cpc, histVars>>

\* The pool with a caller that may call Shutdown a second time.
TwiceNext ==
    \/ Next
    \/ ShutdownAgain

TwiceSpec == Init /\ [][TwiceNext]_vars

\* --------------------------------------------------- upload handler
\* No row for the id in the files table.
NoRecord == [status |-> "none", meta |-> FALSE]

\* State at process start: no upload has arrived, the repository is empty.
UploadInit ==
    /\ startI = 0
    /\ wg = 0
    /\ jobs = <<>>
    /\ jobsClosed = FALSE
    /\ results = <<>>
    /\ resultsClosed = FALSE
    /\ ctxDone = FALSE
    /\ wpc = [w \in Workers |-> "idle"]
    /\ wjob = [w \in Workers |-> 0]
    /\ werr = [w \in Workers |-> FALSE]
    /\ wres = [w \in Workers |-> "none"]
    /\ wcan = [w \in Workers |-> FALSE]
    /\ rpc = [i \in Ids |-> "upload"]
    /\ sdPc = "idle"
    /\ cpc = "recv"
    /\ atClose = [i \in Ids |-> "none"]
    /\ atCancel = [i \in Ids |-> "none"]
    /\ deq = [i \in Ids |-> 0]
    /\ pushed = [i \in Ids |-> 0]
    /\ seen = [i \in Ids |-> 0]
    /\ mpc = "serving"
    /\ cur = NoResult
    /\ rec = [i \in Ids |-> NoRecord]
    /\ calls = [i \in Ids |-> <<>>]
    /\ HasherIdle

\* Mutant: the handler going on to Submit after a failed RegisterFile.
UploadRegisterNoReturn(id) ==
    /\ id <= MaxUploads
    /\ rpc[id] = "upload"
    /\ \A j \in Ids : j < id => rpc[j] # "upload"
    /\ \E ok \in BOOLEAN :
          rec' = IF ok THEN [rec EXCEPT ![id] = PendingRecord] ELSE rec
    /\ rpc' = [rpc EXCEPT ![id] = "new"]
    /\ UNCHANGED <<hashVars, mpc, cur, calls, startI, wg, poolVars, workerVars, sdPc, cpc,
                   histVars>>

\* uploadFile, the file saved: h.grpc.RegisterFile runs repo.Create with
\* status "pending"; on an error the handler answers with the mapped HTTP
\* status and returns, otherwise it goes on to h.pool.Submit.
UploadRegister(id) ==
    /\ id <= MaxUploads
    /\ rpc[id] = "upload"
    /\ \A j \in Ids : j < id => rpc[j] # "upload"
    /\ \E ok \in BOOLEAN :
          /\ rec' = IF ok THEN [rec EXCEPT ![id] = PendingRecord] ELSE rec
          /\ rpc' = [rpc EXCEPT ![id] = IF ok THEN "new" ELSE "regfail"]
    /\ UNCHANGED <<hashVars, mpc, cur, calls, startI, wg, poolVars, workerVars, sdPc, cpc,
                   histVars>>

\* uploadFile after Submit returned: the returned bool is discarded and the
\* handler writes 202 Accepted with {"id", "status": "pending"}.
UploadRespond(id) ==
    /\ rpc[id] \in {"true", "false"}
    /\ rpc' = [rpc EXCEPT ![id] = "responded"]
    /\ UNCHANGED <<hashVars, mainVars, startI, wg, poolVars, workerVars, sdPc, cpc, histVars>>

\* The process of MainSpec with the upload handler followed from RegisterFile
\* to its answer.
UploadNext ==
    \/ MainNext
    \/ \E id \in Ids : UploadRegister(id)
    \/ \E id \in Ids : UploadRespond(id)

UploadSpec == UploadInit /\ [][UploadNext]_vars

\* ------------------------------------------------- pool-wide cancellation
\* p.cancel(): the cancel function of the pool context NewPool created. No
\* code of the repository calls it; here it is an input of the pool.
PoolCancel ==
    /\ Started
    /\ ~ctxDone
    /\ ctxDone' = TRUE
    /\ atCancel' = [i \in Ids |-> IF rpc[i] = "new" THEN "new" ELSE "called"]
    /\ UNCHANGED <<hashVars, mainVars, startI, wg, jobs, jobsClosed, results, resultsClosed,
                   workerVars, rpc, sdPc, cpc, atClose, deq, pushed, seen>>

\* The pool with its context cancellable. A select with several ready cases
\* takes any of them: each ready case is an enabled action.
CancelNext ==
    \/ Start
    \/ PoolCancel
    \/ \E id \in Ids : SubmitCall(id)
    \/ \E id \in Ids : SubmitSend(id)
    \/ \E id \in Ids : SubmitPanic(id)
    \/ \E id \in Ids : SubmitCtxDone(id)
    \/ \E w \in Workers : UploadWorkerDequeue(w)
    \/ \E w \in Workers : WorkerExit(w)
    \/ \E w \in Workers : WorkerCtxDone(w)
    \/ \E w \in Workers : ProcessPrecheck(w)
    \/ \E w \in Workers : ProcessPostcheck(w)
    \/ \E w \in Workers : ProcessPush(w)
    \/ ShutdownCloseJobs
    \/ ShutdownWait
    \/ ShutdownCloseResults
    \/ ConsumerRecv
    \/ ConsumerDone

CancelSpec == Init /\ [][CancelNext]_vars

\* ------------------------------------------------- nobody reads Results()
\* The cancellable pool with no goroutine receiving from Results().
NoConsumerNext ==
    \/ Start
    \/ PoolCancel
    \/ \E id \in Ids : SubmitCall(id)
    \/ \E id \in Ids : SubmitSend(id)
    \/ \E id \in Ids : SubmitPanic(id)
    \/ \E id \in Ids : SubmitCtxDone(id)
    \/ \E w \in Workers : UploadWorkerDequeue(w)
    \/ \E w \in Workers : WorkerExit(w)
    \/ \E w \in Workers : WorkerCtxDone(w)
    \/ \E w \in Workers : ProcessPrecheck(w)
    \/ \E w \in Workers : ProcessPostcheck(w)
    \/ \E w \in Workers : ProcessPush(w)
    \/ ShutdownCloseJobs
    \/ ShutdownWait
    \/ ShutdownCloseResults

NoConsumerSpec == Init /\ [][NoConsumerNext]_vars

\* ------------------------------------------------------ hasher (analyzer)
\* Longest file content.
MaxLen == 4
\* Length of the head read for MIME detection (512 in the code, scaled down).
SniffLen == 2
\* bufio.MaxScanTokenSize, the longest line a default Scanner returns
\* (64 * 1024 in the library, scaled down).
MaxScanTokenSize == 3

\* Byte values by class: a letter, a space, a newline, the leading byte
\* sequence of a PNG file (taken as one symbol; it holds control bytes), and a
\* NUL byte.
Bytes == {"a", "sp", "nl", "png", "nul"}

Contents == UNION {[1..n -> Bytes] : n \in 0..MaxLen}

Code(b) ==
    CASE b = "a" -> 97
      [] b = "sp" -> 32
      [] b = "nl" -> 10
      [] b = "png" -> 137
      [] b = "nul" -> 0

Min(x, y) == IF x <= y THEN x ELSE y

\* sha256.New(): the hasher's initial state.
ShaNew == 5381

\* h.Write(bs): the state after absorbing bs, byte by byte (a 16-bit mixing
\* function stands for SHA-256's compression).
RECURSIVE ShaWrite(_, _)
ShaWrite(h, bs) ==
    IF bs = <<>> THEN h
    ELSE ShaWrite((h * 33 + Code(Head(bs)) + 1) % 65521, Tail(bs))

HexDigits ==
    <<"0", "1", "2", "3", "4", "5", "6", "7", "8", "9", "a", "b", "c", "d", "e", "f">>

\* hex.EncodeToString(h.Sum(nil)): two digits per byte, high nibble first.
HexEncode(n) ==
    << HexDigits[((n \div 4096) % 16) + 1], HexDigits[((n \div 256) % 16) + 1],
       HexDigits[((n \div 16) % 16) + 1], HexDigits[(n % 16) + 1] >>

\* http.DetectContentType(data): an image signature at offset 0; otherwise
\* text unless the data holds a control byte; empty data is text. A MIME type
\* is the pair <<category, rest>> standing for "category/rest".
DetectContentType(data) ==
    IF data # <<>> /\ data[1] = "png" THEN <<"image", "png">>
    ELSE IF \E k \in 1..Len(data) : data[k] \in {"nul", "png"}
         THEN <<"application", "octet-stream">>
         ELSE <<"text", "plain; charset=utf-8">>

\* strings.HasPrefix(mimeType, category + "/")
HasPrefix(m, category) == m[1] = category

\* Index of the first newline of bs, 0 when there is none.
RECURSIVE IndexNewline(_, _)
IndexNewline(bs, k) ==
    IF k > Len(bs) THEN 0
    ELSE IF bs[k] = "nl" THEN k
    ELSE IndexNewline(bs, k + 1)

\* The tokens scanner.Scan() delivers with the default ScanLines split before
\* it returns false: at end of input, or with ErrTooLong when the buffer has
\* grown to MaxScanTokenSize bytes without holding a whole line. The loop of
\* analyzeText does not look at scanner.Err().
RECURSIVE ScanLines(_)
ScanLines(bs) ==
    LET i == IndexNewline(bs, 1) IN
    IF bs = <<>> THEN <<>>
    ELSE IF i = 0
         THEN IF Len(bs) >= MaxScanTokenSize THEN <<>> ELSE <<bs>>
         ELSE IF i > MaxScanTokenSize THEN <<>>
              ELSE <<SubSeq(bs, 1, i - 1)>> \o ScanLines(SubSeq(bs, i + 1, Len(bs)))

IsSpace(b) == b \in {"sp", "nl"}

\* len(bytes.Fields(bs)): the maximal runs of non-space bytes.
RECURSIVE Fields(_, _)
Fields(bs, inWord) ==
    IF bs = <<>> THEN 0
    ELSE IF IsSpace(Head(bs)) THEN Fields(Tail(bs), FALSE)
    ELSE (IF inWord THEN 0 ELSE 1) + Fields(Tail(bs), TRUE)

RECURSIVE SumFields(_)
SumFields(toks) ==
    IF toks = <<>> THEN 0
    ELSE Fields(Head(toks), FALSE) + SumFields(Tail(toks))

\* analyzeText on an opened file: lines++ and words += len(Fields) per token.
AnalyzeText(bs) ==
    [lines |-> Len(ScanLines(bs)), words |-> SumFields(ScanLines(bs))]

\* image.DecodeConfig succeeds when the signature is followed by the header
\* holding the dimensions (here one byte each); otherwise it returns an error.
DecodeConfigOk(bs) == Len(bs) >= 3 /\ bs[1] = "png"

\* analyzeImage on an opened file whose config decodes.
AnalyzeImage(bs) == [width |-> Code(bs[2]), height |-> Code(bs[3])]

\* File paths by shape: no dot; a dot in the last element; a dot only in a
\* directory name. ("x" a name character, "/" the separator.)
Paths == {<<"x">>, <<"x", ".", "x">>, <<".", "x", "/", "x">>}

\* filepath.Ext(p): the suffix from the last dot of the last path element,
\* empty when that element has no dot (scanning back from the end to the
\* first separator).
RECURSIVE ExtFrom(_, _)
ExtFrom(p, i) ==
    IF i = 0 THEN <<>>
    ELSE IF p[i] = "/" THEN <<>>
    ELSE IF p[i] = "." THEN SubSeq(p, i, Len(p))
    ELSE ExtFrom(p, i - 1)

Ext(p) == ExtFrom(p, Len(p))

\* Init for following ComputeMetadata: any bounded content at the path, each
\* call about to start.
HasherInit ==
    /\ PoolInit
    /\ content \in Contents
    /\ path \in Paths
    /\ hpc = [r \in Runs |-> "start"]
    /\ off = [r \in Runs |-> 0]
    /\ hmime = [r \in Runs |-> <<>>]
    /\ hsum = [r \in Runs |-> 0]
    /\ hmeta = [r \in Runs |-> NoMetadata]

\* f, err := os.Open(filePath): on error return it; else h := sha256.New().
HOpen(r) ==
    /\ hpc[r] = "start"
    /\ \E ok \in BOOLEAN :
          /\ hpc' = [hpc EXCEPT ![r] = IF ok THEN "read" ELSE "error"]
          /\ hsum' = [hsum EXCEPT ![r] = IF ok THEN ShaNew ELSE @]
    /\ off' = [off EXCEPT ![r] = 0]
    /\ UNCHANGED <<content, path, hmime, hmeta, startI, wg, poolVars, workerVars, rpc, sdPc, cpc,
                   histVars, mainVars>>

\* n, err := f.Read(head) (io.EOF tolerated); mimeType from head[:n].
HReadHead(r) ==
    /\ hpc[r] = "read"
    /\ LET n == Min(SniffLen, Len(content) - off[r]) IN
          /\ hmime' = [hmime EXCEPT ![r] =
                          DetectContentType(SubSeq(content, off[r] + 1, off[r] + n))]
          /\ off' = [off EXCEPT ![r] = @ + n]
    /\ hpc' = [hpc EXCEPT ![r] = "seek"]
    /\ UNCHANGED <<content, path, hsum, hmeta, startI, wg, poolVars, workerVars, rpc, sdPc, cpc,
                   histVars, mainVars>>

\* Mutant: the file is not rewound after the head was read.
HSeekNone(r) ==
    /\ hpc[r] = "seek"
    /\ hpc' = [hpc EXCEPT ![r] = "copy"]
    /\ UNCHANGED <<content, path, off, hmime, hsum, hmeta, startI, wg, poolVars, workerVars, rpc,
                   sdPc, cpc, histVars, mainVars>>

\* f.Seek(0, 0)
HSeek(r) ==
    /\ hpc[r] = "seek"
    /\ off' = [off EXCEPT ![r] = 0]
    /\ hpc' = [hpc EXCEPT ![r] = "copy"]
    /\ UNCHANGED <<content, path, hmime, hsum, hmeta, startI, wg, poolVars, workerVars, rpc, sdPc,
                   cpc, histVars, mainVars>>

\* Mutant: one hasher shared by all calls instead of a fresh h per call.
HCopySharedHasher(r) ==
    /\ hpc[r] = "copy"
    /\ LET fed == SubSeq(content, off[r] + 1, Len(content))
           sum == ShaWrite(hsum[1], fed) IN
          /\ hsum' = [hsum EXCEPT ![1] = sum]
          /\ hmeta' = [hmeta EXCEPT ![r] =
                          [hash |-> HexEncode(sum),
                           size |-> Len(fed),
                           ext |-> <<>>,
                           extra |-> [mime_type |-> hmime[r]]]]
    /\ off' = [off EXCEPT ![r] = Len(content)]
    /\ hpc' = [hpc EXCEPT ![r] = "analyze"]
    /\ UNCHANGED <<content, path, hmime, startI, wg, poolVars, workerVars, rpc, sdPc, cpc,
                   histVars, mainVars>>

\* size, err := io.Copy(h, f): everything from the offset to the end goes into
\* h; hash := hex(h.Sum(nil)); extra := {"mime_type": mimeType}.
HCopy(r) ==
    /\ hpc[r] = "copy"
    /\ LET fed == SubSeq(content, off[r] + 1, Len(content))
           sum == ShaWrite(hsum[r], fed) IN
          /\ hsum' = [hsum EXCEPT ![r] = sum]
          /\ hmeta' = [hmeta EXCEPT ![r] =
                          [hash |-> HexEncode(sum),
                           size |-> Len(fed),
                           ext |-> <<>>,
                           extra |-> [mime_type |-> hmime[r]]]]
    /\ off' = [off EXCEPT ![r] = Len(content)]
    /\ hpc' = [hpc EXCEPT ![r] = "analyze"]
    /\ UNCHANGED <<content, path, hmime, startI, wg, poolVars, workerVars, rpc, sdPc, cpc,
                   histVars, mainVars>>

\* for k, v := range args { extra[k] = v }
Merge(extra, args) ==
    [k \in DOMAIN extra \cup DOMAIN args |-> IF k \in DOMAIN args THEN args[k] ELSE extra[k]]

\* Mutant: the text analysis not guarded by the MIME category (a plain `if`
\* chain that also runs analyzeText after analyzeImage).
ExtensionTextAlways(m, bs, openOk) ==
    Merge(IF HasPrefix(m, "image") /\ openOk /\ DecodeConfigOk(bs) THEN AnalyzeImage(bs)
          ELSE <<>>,
          IF openOk THEN AnalyzeText(bs) ELSE <<>>)

\* The category extension computed for the detected MIME type: the image or
\* the text block when that analysis returned no error (its own os.Open can
\* fail too), nothing otherwise.
Extension(m, bs, openOk) ==
    IF HasPrefix(m, "image")
    THEN IF openOk /\ DecodeConfigOk(bs) THEN AnalyzeImage(bs) ELSE <<>>
    ELSE IF HasPrefix(m, "text")
         THEN IF openOk THEN AnalyzeText(bs) ELSE <<>>
         ELSE <<>>

\* The category analyzer is called for this MIME type and returns an error.
AnalyzerFails(m, bs, openOk) ==
    \/ HasPrefix(m, "image") /\ ~(openOk /\ DecodeConfigOk(bs))
    \/ HasPrefix(m, "text") /\ ~openOk

\* Mutant: an analyzer error returned to the caller as the call's error.
HAnalyzeStrict(r) ==
    /\ hpc[r] = "analyze"
    /\ \E openOk \in BOOLEAN :
          IF AnalyzerFails(hmime[r], content, openOk)
          THEN /\ hpc' = [hpc EXCEPT ![r] = "error"]
               /\ hmeta' = [hmeta EXCEPT ![r] = NoMetadata]
          ELSE /\ hpc' = [hpc EXCEPT ![r] = "done"]
               /\ hmeta' = [hmeta EXCEPT
                               ![r].extra = Merge(hmeta[r].extra,
                                                  Extension(hmime[r], content, openOk)),
                               ![r].ext = Ext(path)]
    /\ UNCHANGED <<content, path, off, hmime, hsum, startI, wg, poolVars, workerVars, rpc, sdPc,
                   cpc, histVars, mainVars>>

\* Content-specific analysis on the re-opened file, merged into extra; return
\* &Metadata{hash, size, filepath.Ext(filePath), extra}, nil.
HAnalyze(r) ==
    /\ hpc[r] = "analyze"
    /\ \E openOk \in BOOLEAN :
          hmeta' = [hmeta EXCEPT
                       ![r].extra = Merge(hmeta[r].extra, Extension(hmime[r], content, openOk)),
                       ![r].ext = Ext(path)]
    /\ hpc' = [hpc EXCEPT ![r] = "done"]
    /\ UNCHANGED <<content, path, off, hmime, hsum, startI, wg, poolVars, workerVars, rpc, sdPc,
                   cpc, histVars, mainVars>>

\* Two ComputeMetadata calls on the same file, interleaved step by step.
HasherNext ==
    \/ \E r \in Runs : HOpen(r)
    \/ \E r \in Runs : HReadHead(r)
    \/ \E r \in Runs : HSeek(r)
    \/ \E r \in Runs : HCopy(r)
    \/ \E r \in Runs : HAnalyze(r)

HasherSpec == HasherInit /\ [][HasherNext]_vars

\* ------------------------------------------------------------ properties
Accepted == {i \in Ids : rpc[i] = "true"}

\* Jobs dequeued from the job queue whose Result has not been pushed yet.
InFlight == SumOver(deq, Ids) - SumOver(pushed, Ids)

\* Number of Results for id sitting in the result queue.
Queued(id) == Cardinality({k \in 1..Len(results) : results[k].id = id})

\* Some worker is inside process with job id.
Held(id) == \E w \in Workers : wjob[w] = id /\ wpc[w] \in {"precheck", "postcheck", "push"}

Busy(w) == wpc[w] \in {"precheck", "postcheck", "push", "panic"}

\* C1: no loss under graceful shutdown. Once Shutdown has been called on a
\* started pool whose result stream keeps being read, the consumer eventually
\* sees the stream closed having observed exactly one result for every job
\* Submit accepted, and none for any other id.
C1_NoLossUnderShutdown ==
    (sdPc # "idle") ~>
        (/\ cpc = "done"
         /\ resultsClosed
         /\ \A i \in Ids : seen[i] = IF i \in Accepted THEN 1 ELSE 0)

\* C1 witness: the stream has closed after every one of MaxJobs accepted jobs
\* was observed.
C1_Witness ==
    /\ cpc = "done"
    /\ Accepted = Ids
    /\ \A i \in Ids : seen[i] = 1

\* C2: bounded concurrency. The number of jobs dequeued but not yet resulted
\* never exceeds the worker count fixed at construction.
C2_BoundedConcurrency ==
    /\ InFlight <= NumWorkers
    /\ InFlight = Cardinality({w \in Workers : wjob[w] # 0})

\* C2 witness: every worker holds a job while further accepted submissions
\* fill the job queue.
C2_Witness ==
    /\ InFlight = NumWorkers
    /\ Len(jobs) = JobsCap

\* C3: drain-then-close. Once the result queue is closed no worker holds a job
\* or stands at (or has panicked in) the result push, the job queue is empty,
\* and every dequeued or accepted job has had its result pushed.
C3_DrainThenClose ==
    resultsClosed =>
        /\ \A w \in Workers : ~Busy(w) /\ wjob[w] = 0
        /\ jobs = <<>>
        /\ \A i \in Ids : deq[i] = pushed[i]
        /\ \A i \in Accepted : pushed[i] = 1

\* C3 witness: the result queue is closed after results were pushed, some of
\* them still unread.
C3_Witness ==
    /\ resultsClosed
    /\ results # <<>>
    /\ Cardinality(Accepted) >= 2

\* C4: the single consumer observes every pushed result exactly once. Each
\* pushed result is either still queued or was observed, none is observed
\* twice, and when the consumer sees the stream closed nothing pushed is unread.
C4_ObservedExactlyOnce ==
    /\ \A i \in Ids : pushed[i] = seen[i] + Queued(i)
    /\ \A i \in Ids : seen[i] <= 1
    /\ cpc = "done" => /\ results = <<>>
                       /\ \A i \in Ids : seen[i] = pushed[i]
                       /\ \A w \in Workers : ~Busy(w)

\* C4 witness: the consumer has finished after observing at least two results.
C4_Witness ==
    /\ cpc = "done"
    /\ Cardinality({i \in Ids : seen[i] = 1}) >= 2

\* C5: exactly one Result per accepted job. A dequeued job is either held by a
\* worker inside process or has exactly one Result with its id pushed; Results
\* exist only for accepted ids; and once Shutdown has finished waiting for the
\* workers every accepted job has its Result.
C5_OneResultPerJob ==
    /\ \A i \in Ids : deq[i] <= 1 /\ pushed[i] <= 1
    /\ \A i \in Ids : deq[i] = pushed[i] + (IF Held(i) THEN 1 ELSE 0)
    /\ \A i \in Ids : deq[i] > 0 => i \in Accepted
    /\ \A k \in 1..Len(results) :
          /\ results[k].id \in Accepted
          /\ results[k].kind \in {"cancelled_before", "cancelled_during", "error", "success"}
    /\ sdPc \in {"closeResults", "done"} => \A i \in Accepted : pushed[i] = 1

\* C5 witness: results of two different paths through process are queued (a
\* job cancelled before dispatch and an analyzer error).
C5_Witness ==
    /\ Len(results) = 2
    /\ results[1].kind = "cancelled_before"
    /\ results[2].kind = "error"
    /\ results[1].id # results[2].id

\* C5 witness of the other two paths: a job cancelled during the pass and a
\* success.
C5_WitnessOtherPaths ==
    /\ Len(results) = 2
    /\ results[1].kind = "cancelled_during"
    /\ results[2].kind = "success"

InJobs(id) == \E k \in 1..Len(jobs) : jobs[k] = id

\* C6: a Submit call made after Shutdown has begun returns false and does not
\* enqueue: it never returns true, never reaches an error state, and its job
\* never enters the job queue.
C6_SubmitAfterShutdownFalse ==
    \A i \in Ids :
        atClose[i] = "new" =>
            /\ rpc[i] \in {"new", "submit", "false"}
            /\ ~InJobs(i)
            /\ deq[i] = 0

\* C7: a Submit call blocked on a full job queue when the pool starts shutting
\* down is released by returning false without enqueuing its job.
C7_BlockedSubmitReleasedFalse ==
    \A i \in Ids :
        atClose[i] = "blocked" =>
            /\ rpc[i] \in {"submit", "false"}
            /\ ~InJobs(i)
            /\ deq[i] = 0

\* C8: job-queue backpressure. The job queue never holds more than
\* 2 x worker count jobs; while it is full no Submit returns true and nothing
\* is enqueued (the queue only shrinks, by a worker's dequeue); a Submit that
\* finds the queue of a running pool non-full can complete, and completes only
\* by appending its job at the tail and returning true.
C8_JobQueueBackpressure ==
    /\ [](Len(jobs) <= 2 * NumWorkers)
    /\ [](\A i \in Ids :
            (rpc[i] = "submit" /\ ~jobsClosed /\ Len(jobs) < 2 * NumWorkers)
                => ENABLED SubmitSend(i))
    /\ [][\A i \in Ids :
            /\ (rpc[i] = "submit" /\ Len(jobs) >= 2 * NumWorkers) =>
                  /\ rpc'[i] # "true"
                  /\ jobs' = jobs \/ (jobs' = Tail(jobs) /\ deq'[Head(jobs)] = deq[Head(jobs)] + 1)
            /\ (rpc[i] = "submit" /\ rpc'[i] = "true") => jobs' = Append(jobs, i)
            /\ (rpc[i] = "submit" /\ rpc'[i] # "submit" /\ ~jobsClosed
                    /\ Len(jobs) < 2 * NumWorkers) =>
                  (rpc'[i] = "true" /\ jobs' = Append(jobs, i))]_vars

\* C8 witness: with the job queue full and a Submit blocked on it, the worker
\* stands ready to dequeue.
C8_Witness ==
    /\ Len(jobs) = 2 * NumWorkers
    /\ ~jobsClosed
    /\ \E i \in Ids : rpc[i] = "submit"
    /\ \E w \in Workers : wpc[w] = "select"

\* C9: result-queue backpressure. The result queue never holds more than
\* 2 x worker count results; while it is full a worker standing at the push
\* keeps its job and its one Result and takes no other job, and no result is
\* pushed; the queue only shrinks, by the consumer's read, after which the
\* push can proceed.
C9_ResultQueueBackpressure ==
    /\ [](Len(results) <= 2 * NumWorkers)
    /\ [](\A w \in Workers :
            (wpc[w] = "push" /\ ~resultsClosed /\ Len(results) < 2 * NumWorkers)
                => ENABLED ProcessPush(w))
    /\ [][\A w \in Workers :
            (wpc[w] = "push" /\ Len(results) >= 2 * NumWorkers) =>
                /\ wpc'[w] = "push"
                /\ wjob'[w] = wjob[w]
                /\ wres'[w] = wres[w]
                /\ pushed' = pushed
                /\ results' = results
                     \/ (results' = Tail(results)
                         /\ seen'[Head(results).id] = seen[Head(results).id] + 1)]_vars

\* C9 witness: a worker is blocked at the push, holding its Result, on a full
\* result queue that the consumer has not read from yet.
C9_Witness ==
    /\ Len(results) = 2 * NumWorkers
    /\ ~resultsClosed
    /\ \E w \in Workers : wpc[w] = "push" /\ wjob[w] # 0 /\ wres[w] # "none"
    /\ cpc = "recv"

AllExited == \A w \in Workers : wpc[w] = "exited"

\* C10: the steps of the single Shutdown call. Before it the queues are open;
\* while it waits the job queue is closed and the result queue open; it gets
\* past the wait only when all workers have exited, having drained the job
\* queue; only then is the result queue closed, so the result queue is never
\* closed while a worker is alive.
C10_ShutdownOrder ==
    /\ sdPc \in {"idle", "wait", "closeResults", "done"}
    /\ sdPc = "idle" => ~jobsClosed /\ ~resultsClosed
    /\ sdPc = "wait" => jobsClosed /\ ~resultsClosed
    /\ sdPc = "closeResults" => jobsClosed /\ ~resultsClosed /\ AllExited /\ wg = 0
    /\ sdPc = "done" => jobsClosed /\ resultsClosed /\ AllExited /\ wg = 0
    /\ AllExited => jobs = <<>>
    /\ wg = Cardinality({w \in Workers : wpc[w] \notin {"idle", "exited"}})

\* C10 witness: Shutdown has passed the wait, after the workers drained jobs
\* that were still queued, and is about to close the result queue.
C10_Witness ==
    /\ sdPc = "closeResults"
    /\ Cardinality(Accepted) >= 2
    /\ \A i \in Accepted : pushed[i] = 1

\* C11: zero jobs. When Shutdown is called on a started pool that accepted no
\* job, all workers exit, Shutdown returns, and the result stream closes with
\* the consumer having observed no result.
C11_ZeroJobsShutdown ==
    (sdPc # "idle" /\ Accepted = {}) ~>
        (/\ sdPc = "done"
         /\ AllExited
         /\ resultsClosed
         /\ cpc = "done"
         /\ \A i \in Ids : pushed[i] = 0 /\ seen[i] = 0)

\* C11 witness: Shutdown has returned and the consumer has seen the stream
\* close while no Submit was ever called.
C11_Witness ==
    /\ sdPc = "done"
    /\ cpc = "done"
    /\ \A i \in Ids : rpc[i] = "new" /\ seen[i] = 0

FailureKinds == {"cancelled_before", "cancelled_during", "error"}

\* C14: an analyzer failure is fatal to that job only. The worker leaves the
\* post-pass check with a Failure Result for the same job, pushes it for that
\* id, and is back at the head of its loop ready for the next job; neither
\* step changes the number of live workers, and no worker ever panics.
C14_AnalyzerFailureIsolated ==
    /\ [](\A w \in Workers : wpc[w] # "panic")
    /\ [][\A w \in Workers :
            /\ (wpc[w] = "postcheck" /\ werr[w] /\ wpc'[w] # "postcheck") =>
                  /\ wpc'[w] = "push"
                  /\ wres'[w] = IF wcan[w] THEN "cancelled_during" ELSE "error"
                  /\ wjob'[w] = wjob[w]
                  /\ wg' = wg
            /\ (wpc[w] = "push" /\ wres[w] = "error" /\ wpc'[w] # "push") =>
                  /\ results' = Append(results, Result(wjob[w], "error"))
                  /\ wpc'[w] = "select"
                  /\ wg' = wg]_vars

\* C14 witness: the worker whose previous job ended in an analyzer error (its
\* Failure Result is queued) is processing its next job.
C14_Witness ==
    /\ \E k \in 1..Len(results) : results[k].kind = "error"
    /\ \E w \in Workers : wpc[w] = "postcheck" /\ wjob[w] # 0
    /\ wg = NumWorkers

\* C15: a job whose Ctx is already cancelled when the worker dequeues it never
\* reaches the analyzer: the worker's only step with it goes straight to the
\* push of a "cancelled before processing" Failure for the same id, and that
\* is the Result that is pushed.
C15_PreCancelledSkipsAnalyzer ==
    [][\A w \in Workers :
         /\ (wpc[w] = "precheck" /\ wcan[w] /\ wpc'[w] # "precheck") =>
               /\ wpc'[w] = "push"
               /\ wres'[w] = "cancelled_before"
               /\ wjob'[w] = wjob[w]
               /\ werr'[w] = werr[w]
         /\ (wpc[w] = "push" /\ wres[w] = "cancelled_before" /\ wpc'[w] # "push") =>
               results' = Append(results, Result(wjob[w], "cancelled_before"))]_vars

\* C15 witness: a worker has just dequeued a job whose Ctx is cancelled.
C15_Witness ==
    \E w \in Workers : wpc[w] = "precheck" /\ wcan[w] /\ wjob[w] # 0

\* C16: a cancellation detected at the pre-flight check or at the check after
\* the pass never yields a success: the Result is a cancellation Failure,
\* whether the analysis succeeded or failed.
C16_CancellationNeverSuccess ==
    /\ [](\A e \in BOOLEAN : ResultKind(TRUE, e) = "cancelled_during")
    /\ [][\A w \in Workers :
            (wpc[w] \in {"precheck", "postcheck"} /\ wcan[w] /\ wpc'[w] # wpc[w]) =>
                /\ wpc'[w] = "push"
                /\ wres'[w] = IF wpc[w] = "precheck" THEN "cancelled_before"
                              ELSE "cancelled_during"]_vars

\* C16 witness: the job's cancellation is set at the post-pass check while the
\* analyzer has returned an error of its own.
C16_Witness ==
    \E w \in Workers : wpc[w] = "postcheck" /\ wcan[w] /\ werr[w]


\* Position of main in its shutdown sequence.
ServersStopped == mpc \notin {"serving", "httpShutdown", "grpcStop"}
PastPoolShutdown == mpc \in {"waitResults", "release", "dbClose", "exited"}
PastResultsWait == mpc \in {"release", "dbClose", "exited"}

\* The calls main itself makes are in order: pool.Shutdown starts only after
\* both servers' stop calls returned, the wait on resultsDone starts only after
\* pool.Shutdown returned, and the deferred closes run only after the results
\* goroutine finished.
MainCallOrder ==
    /\ sdPc # "idle" => ServersStopped
    /\ PastPoolShutdown => sdPc = "done" /\ resultsClosed
    /\ PastResultsWait => cpc = "done" /\ results = <<>>
    /\ RepoClosed => PastResultsWait
    /\ DbClosed => RepoClosed

\* C12: the shutdown sequence runs in strict order and no step begins before
\* the previous one has completed: once the servers' stop calls have returned
\* (step 1) no new submission into the pool begins, pool Shutdown (step 2)
\* starts after that and returns before the wait on the consumer (step 3),
\* and the resources are released (step 4) only after the consumer finished.
C12_StrictShutdownOrder ==
    /\ [] MainCallOrder
    /\ [][ServersStopped => \A i \in Ids : ~(rpc[i] = "new" /\ rpc'[i] = "submit")]_vars


\* C13: under the shutdown sequence, with fair scheduling and every analyzer
\* and repository call returning, the wait on the consumer completes, and when
\* it has completed every worker has returned and the consumer has returned:
\* none of them is running or blocked.
C13_AllGoroutinesTerminate ==
    /\ [](PastResultsWait =>
            /\ AllExited
            /\ wg = 0
            /\ \A w \in Workers : wjob[w] = 0
            /\ cpc = "done")
    /\ (mpc = "httpShutdown" ~> (PastResultsWait /\ AllExited /\ cpc = "done"))

\* The wait completed in a run where a job was accepted before pool.Shutdown
\* began and the consumer made its repository calls.
C13_Witness ==
    /\ mpc = "release"
    /\ AllExited
    /\ cpc = "done"
    /\ \E i \in Ids : atClose[i] = "true" /\ seen[i] = 1 /\ calls[i] # <<>>


\* C17: for a success Result the consumer first calls UpdateMetadata and only
\* afterwards UpdateStatus "completed": every "completed" status call of an id
\* directly follows a metadata call for that id that succeeded, the metadata
\* call is the first call made for a success Result, and a record marked
\* "completed" holds its metadata.
C17_MetadataBeforeCompleted ==
    /\ \A i \in Ids : \A k \in 1..Len(calls[i]) :
          calls[i][k].op = "status_completed" =>
              /\ k > 1
              /\ calls[i][k - 1] = Call("metadata", TRUE)
    /\ \A i \in Ids : rec[i].status = "completed" => rec[i].meta
    /\ cpc = "meta" => cur.kind = "success" /\ calls[cur.id] = <<>>
    /\ cpc = "status" =>
          /\ cur.kind = "success"
          /\ calls[cur.id] = <<Call("metadata", TRUE)>>

\* One record was marked "completed" after its metadata update, and for
\* another success Result the metadata update failed.
C17_Witness ==
    \E i, j \in Ids :
        /\ rec[i].status = "completed"
        /\ calls[i] = <<Call("metadata", TRUE), Call("status_completed", TRUE)>>
        /\ calls[j] = <<Call("metadata", FALSE)>>
        /\ cpc = "recv"


\* C18: for a Failure Result the consumer issues exactly one status update,
\* to "failed", and no metadata update for that id; the job is not submitted
\* to the pool again: it is dequeued once and never re-enters the job queue.
C18_FailureMarkedFailedOnce ==
    /\ [](/\ \A i \in Ids :
                (\E k \in 1..Len(calls[i]) : calls[i][k].op = "status_failed") =>
                    Len(calls[i]) = 1
          /\ cpc = "failed" => cur.kind \in FailureKinds /\ calls[cur.id] = <<>>
          /\ \A i \in Ids :
                seen[i] >= 1 =>
                    /\ seen[i] = 1
                    /\ deq[i] = 1
                    /\ rpc[i] = "true"
                    /\ ~InJobs(i)
                    /\ ~Held(i))
    /\ [][/\ (/\ cpc = "recv"
              /\ results # <<>>
              /\ results' = Tail(results)
              /\ Head(results).kind \in FailureKinds) =>
                  cpc' = "failed" /\ cur' = Head(results)
          /\ (cpc = "failed" /\ cpc' # cpc) =>
                  /\ cpc' = "recv"
                  /\ \E ok \in BOOLEAN :
                        calls' = [calls EXCEPT ![cur.id] = <<Call("status_failed", ok)>>]
                  /\ rec'[cur.id].meta = rec[cur.id].meta]_vars

\* A Failure Result was handled: its record is "failed" after the single call.
C18_Witness ==
    \E i \in Ids :
        /\ calls[i] = <<Call("status_failed", TRUE)>>
        /\ rec[i] = [status |-> "failed", meta |-> FALSE]
        /\ cpc = "recv"


\* A repository call made in this step returned an error.
CallFailed ==
    /\ cur.id # 0
    /\ Len(calls'[cur.id]) = Len(calls[cur.id]) + 1
    /\ ~calls'[cur.id][Len(calls'[cur.id])].ok

\* C19: a failing UpdateMetadata or UpdateStatus call does not stop the
\* consumer. After the error it is back at the receive with the result queue
\* untouched, no record changed; a repository call touches only the record and
\* the call log of the result being handled; the consumer returns only when the
\* stream is closed and empty; and every result pushed is eventually handled.
C19_PersistenceErrorIsolated ==
    /\ [][/\ CallFailed =>
                /\ cpc' = "recv"
                /\ rec' = rec
                /\ results' = results
                /\ resultsClosed' = resultsClosed
          /\ calls' # calls =>
                \A j \in Ids \ {cur.id} : calls'[j] = calls[j] /\ rec'[j] = rec[j]]_vars
    /\ [](cpc = "done" => resultsClosed /\ results = <<>>)
    /\ \A i \in Ids : (pushed[i] = 1) ~> (seen[i] = 1 /\ calls[i] # <<>>)

\* A call for one result failed and the consumer is now handling a later
\* result, whose metadata update succeeded.
C19_Witness ==
    \E i \in Ids :
        /\ calls[i] # <<>>
        /\ ~calls[i][Len(calls[i])].ok
        /\ rec[i] = PendingRecord
        /\ cur.id \notin {0, i}
        /\ cpc = "status"
        /\ rec[cur.id].meta


\* C20: once the pool-wide cancellation signal has fired no worker dequeues
\* another job, and no result is produced for a job that was still in the job
\* queue when it fired.
C20_NoDequeueAfterCancel ==
    [][ctxDone => deq' = deq]_vars


\* C21: a Submit call made when the pool context is already cancelled returns
\* false and does not enqueue: it never returns true, never reaches an error
\* state, and its job never enters the job queue.
C21_SubmitAfterCancelFalse ==
    \A i \in Ids :
        atCancel[i] = "new" =>
            /\ rpc[i] \in {"new", "submit", "false"}
            /\ ~InJobs(i)
            /\ deq[i] = 0


\* All repository calls handleResults made for the id returned nil.
CallsSucceeded(i) == \A k \in 1..Len(calls[i]) : calls[i][k].ok

\* C22: graceful shutdown without data loss, end to end. When main has got
\* past <-resultsDone ("shutdown complete"), every job the pool accepted (so
\* every job accepted before the shutdown signal) has had its Result received
\* by the consumer exactly once and its repository calls made, and when those
\* calls succeeded the record holds its final status "completed" (with its
\* metadata) or "failed".
C22_NoLossEndToEnd ==
    PastResultsWait =>
        \A i \in Ids :
            rpc[i] = "true" =>
                /\ pushed[i] = 1
                /\ seen[i] = 1
                /\ calls[i] # <<>>
                /\ CallsSucceeded(i) =>
                      \/ rec[i] = [status |-> "completed", meta |-> TRUE]
                      \/ rec[i] = [status |-> "failed", meta |-> FALSE]

\* Shutdown completed after two jobs accepted before close(p.jobs) were
\* persisted, one as "completed" and one as "failed".
C22_Witness ==
    /\ mpc = "release"
    /\ \E i, j \in Ids :
          /\ atClose[i] = "true"
          /\ atClose[j] = "true"
          /\ rec[i].status = "completed"
          /\ rec[j].status = "failed"


\* The caller of Submit (the upload handler, before it writes its response)
\* is suspended: neither case of Submit's select can proceed.
Suspended(i) == rpc[i] = "submit" /\ ~jobsClosed /\ Len(jobs) = 2 * NumWorkers

C24_DeterministicDigestAndSize ==
    \A r1, r2 \in Runs :
        (hpc[r1] = "done" /\ hpc[r2] = "done") =>
            /\ hmeta[r1].hash = hmeta[r2].hash
            /\ hmeta[r1].size = hmeta[r2].size
            /\ hmeta[r1].hash # <<>>

\* Both calls returned for a content longer than the head.
C24_Witness ==
    /\ \A r \in Runs : hpc[r] = "done"
    /\ Len(content) > SniffLen
    /\ hmeta[1].size = Len(content)


\* The number of lines of a content: its newline-terminated lines, plus a last
\* line that is not terminated.
LineCount(bs) ==
    Cardinality({k \in 1..Len(bs) : bs[k] = "nl"})
        + (IF bs # <<>> /\ bs[Len(bs)] # "nl" THEN 1 ELSE 0)

\* The number of whitespace-delimited words of a content: the positions where
\* a word starts.
WordCount(bs) ==
    Cardinality({k \in 1..Len(bs) : ~IsSpace(bs[k]) /\ (k = 1 \/ IsSpace(bs[k - 1]))})

\* C25: for content classified as text, the returned metadata carries the
\* MIME key, and its lines and words are the number of lines and the number
\* of whitespace-delimited words of the content.
C25_TextLinesAndWords ==
    \A r \in Runs :
        (hpc[r] = "done" /\ HasPrefix(hmime[r], "text")
            /\ "lines" \in DOMAIN hmeta[r].extra) =>
            /\ DOMAIN hmeta[r].extra = {"mime_type", "lines", "words"}
            /\ hmeta[r].extra.mime_type = hmime[r]
            /\ hmeta[r].extra.lines = LineCount(content)
            /\ hmeta[r].extra.words = WordCount(content)


\* C26 as stated: in every reachable state the result queue is closed if and
\* only if every worker has terminated (and so produces no further result).
C26_ClosedIffWorkersDone ==
    resultsClosed <=> AllExited

\* C26 amended: the result queue is closed only when every worker has
\* terminated with the job queue drained, and once closed it stays closed and
\* no further result is pushed; the converse holds with a delay: when every
\* worker has terminated the queue is still open only while Shutdown stands
\* between its wait and its close, and it is closed eventually.
C26_ClosedOnlyAfterWorkersDone ==
    /\ [](resultsClosed =>
            /\ AllExited
            /\ wg = 0
            /\ jobs = <<>>
            /\ \A w \in Workers : wjob[w] = 0)
    /\ [][resultsClosed => (resultsClosed' /\ pushed' = pushed)]_vars
    /\ []((AllExited /\ ~resultsClosed) => sdPc \in {"wait", "closeResults"})
    /\ (AllExited ~> resultsClosed)

\* Every worker has terminated, results were produced, and the result queue
\* is not closed yet: Shutdown is past its wait and about to close it.
C26_Witness ==
    /\ AllExited
    /\ ~resultsClosed
    /\ sdPc = "closeResults"
    /\ \E i \in Ids : pushed[i] = 1


Stale(i) == rec[i] = [status |-> "pending", meta |-> TRUE]

\* C28: the two-step success update is not atomic. The successful metadata
\* update leaves the record with its metadata and status "pending", the
\* status call still to come; a record is in that condition exactly between
\* the two repository calls for it, or after the second call failed - where
\* it then stays, also when the process has shut down.
C28_TwoStepUpdateNotAtomic ==
    /\ [][\A i \in Ids :
            /\ (~rec[i].meta /\ rec'[i].meta) =>
                  /\ Stale(i)'
                  /\ cpc' = "status"
                  /\ cur'.id = i
            /\ (Stale(i) /\ ~(cpc = "status" /\ cur.id = i)) => Stale(i)']_vars
    /\ [](\A i \in Ids :
            Stale(i) <=>
                \/ cpc = "status" /\ cur.id = i
                \/ calls[i] = <<Call("metadata", TRUE), Call("status_completed", FALSE)>>)

\* The process has exited and a record is left with its metadata and status
\* "pending".
C28_Witness ==
    /\ mpc = "exited"
    /\ \E i \in Ids :
          /\ Stale(i)
          /\ calls[i] = <<Call("metadata", TRUE), Call("status_completed", FALSE)>>


\* C29: the classification peek does not consume bytes needed for hashing.
\* The head read advances the file by at most the window; the copy into the
\* hasher starts at offset 0; the reported size is the content's byte count
\* and the digest is the hash of the whole content - for contents longer
\* than, equal to and shorter than the window, and for the empty content.
C29_PeekDoesNotConsume ==
    \A r \in Runs :
        /\ hpc[r] = "seek" => off[r] = Min(SniffLen, Len(content))
        /\ hpc[r] = "copy" => off[r] = 0
        /\ hpc[r] \in {"analyze", "done"} =>
              /\ hmeta[r].size = Len(content)
              /\ hmeta[r].hash = HexEncode(ShaWrite(ShaNew, content))

\* For a content longer than the window, one call has read the head and the
\* other has returned with the full size.
C29_Witness ==
    /\ Len(content) > SniffLen
    /\ hpc[1] = "seek"
    /\ off[1] = SniffLen
    /\ hpc[2] = "done"
    /\ hmeta[2].size = Len(content)


\* The keys of the metadata bundle a call returned.
Keys(r) == DOMAIN hmeta[r].extra

C31_EnrichmentBestEffort ==
    /\ [][\A r \in Runs :
            (hpc[r] = "analyze" /\ hpc'[r] # "analyze") =>
                /\ hpc'[r] = "done"
                /\ hmeta'[r].hash = hmeta[r].hash
                /\ hmeta'[r].size = hmeta[r].size
                /\ hmeta'[r].ext = Ext(path)
                /\ hmeta'[r].extra.mime_type = hmime[r]
                /\ \/ Keys(r)' = {"mime_type"}
                   \/ ~AnalyzerFails(hmime[r], content, TRUE)
                /\ ResultKind(FALSE, hpc'[r] = "error") = "success"]_vars
    /\ [](\A r \in Runs :
            (hpc[r] = "done" /\ AnalyzerFails(hmime[r], content, TRUE)) =>
                /\ Keys(r) = {"mime_type"}
                /\ hmeta[r].hash = HexEncode(ShaWrite(ShaNew, content))
                /\ hmeta[r].size = Len(content))

\* One call returned success with mime_type alone for an image whose config
\* does not decode; the file has an extension.
C31_Witness ==
    /\ hpc[1] = "done"
    /\ HasPrefix(hmime[1], "image")
    /\ ~DecodeConfigOk(content)
    /\ Keys(1) = {"mime_type"}
    /\ hmeta[1].ext = <<".", "x">>


\* C32: in the shipped wiring no upload handler executes pool.Submit once the
\* job queue has been closed: after close(p.jobs) no handler enters Submit and
\* none is in its select (where the send on the closed channel panics).
C32_NoSubmitAfterClose ==
    [][jobsClosed =>
          \A i \in Ids :
              /\ ~(rpc[i] = "new" /\ rpc'[i] = "submit")
              /\ ~(rpc[i] = "submit" /\ rpc'[i] = "panic")]_vars


\* UpdateMetadata was called for the id and returned an error.
MetadataFailed(i) == calls[i] # <<>> /\ calls[i][1] = Call("metadata", FALSE)

\* C33: when UpdateMetadata fails for a success Result the consumer makes no
\* status update for that id: the failed call stays the only repository call
\* for it, the record stays "pending" without metadata, the consumer has
\* dropped the Result, and from then on nothing touches the id again: no
\* further call, no change of the record, no new dequeue, push or receive.
C33_MetadataFailureLeavesPending ==
    /\ [](\A i \in Ids :
            MetadataFailed(i) =>
                /\ calls[i] = <<Call("metadata", FALSE)>>
                /\ rec[i] = PendingRecord
                /\ cur.id # i
                /\ ~InJobs(i)
                /\ ~Held(i))
    /\ [][\A i \in Ids :
            MetadataFailed(i) =>
                /\ calls'[i] = calls[i]
                /\ rec'[i] = rec[i]
                /\ deq'[i] = deq[i]
                /\ pushed'[i] = pushed[i]
                /\ seen'[i] = seen[i]]_vars

\* The process has exited; the record of a job whose metadata update failed
\* is still "pending", while another record was completed after it.
C33_Witness ==
    /\ mpc = "exited"
    /\ \E i, j \in Ids :
          /\ MetadataFailed(i)
          /\ rec[i] = PendingRecord
          /\ rec[j].status = "completed"


\* The job of the id has been put on the job queue at some time.
Enqueued(i) == InJobs(i) \/ deq[i] > 0

\* C34: a record is registered before its job is submitted. The handler
\* enters Submit for an id only when the id's record exists; as long as an
\* id has no record, no job of it is queued, dequeued or pushed and the
\* consumer has made no repository call for it; and after a failed
\* registration the handler never reaches Submit.
C34_RegisteredBeforeSubmitted ==
    /\ [](\A i \in Ids :
            rec[i] = NoRecord =>
                /\ rpc[i] \in {"upload", "regfail"}
                /\ ~Enqueued(i)
                /\ pushed[i] = 0
                /\ calls[i] = <<>>)
    /\ [][\A i \in Ids :
            /\ rpc'[i] = "submit" /\ rpc[i] # "submit" => rec[i] = PendingRecord
            /\ rpc[i] = "regfail" => rpc'[i] = "regfail" /\ rec'[i] = NoRecord]_vars

\* One registration failed and left no record and no job; another upload was
\* registered, submitted, processed and completed.
C34_Witness ==
    \E i, j \in Ids :
        /\ rpc[i] = "regfail"
        /\ rec[i] = NoRecord
        /\ rec[j].status = "completed"
        /\ rpc[j] = "responded"

\* C35: every registered upload whose handler has left Submit, answered with
\* 202 or not, has had its job put on the job queue, so that no record stays
\* "pending" for want of a job.
C35_AnsweredOnlyIfEnqueued ==
    \A i \in Ids :
        rpc[i] \in {"responded", "true", "false", "panic"} /\ rec[i] # NoRecord
            => Enqueued(i)


\* C36: Shutdown is single-call only. A call made after the first one
\* returned never completes normally: its only step is the panic of
\* close(p.jobs) on the closed job queue, that step changes neither queue,
\* and the result stream stays closed with the same content from then on,
\* except for what the consumer still reads from it.
C36_SecondShutdownPanics ==
    /\ [](sdPc = "panic" => jobsClosed /\ resultsClosed)
    /\ [][sdPc = "done" /\ sdPc' # "done" =>
            /\ sdPc' = "panic"
            /\ UNCHANGED <<jobs, jobsClosed, results, resultsClosed, wg>>]_vars
    /\ [][sdPc = "panic" =>
            /\ sdPc' = "panic"
            /\ resultsClosed'
            /\ \/ results' = results
               \/ results # <<>> /\ results' = Tail(results)]_vars

\* The second call has panicked while a result was still buffered in the
\* closed result stream.
C36_Witness ==
    /\ sdPc = "panic"
    /\ resultsClosed
    /\ results # <<>>
    /\ cpc = "recv"


\* The worker is at its result push and the result buffer is full.
BlockedOnPush(w) == wpc[w] = "push" /\ ~resultsClosed /\ Len(results) = ResultsCap

\* C37: with nothing reading the result stream, a worker that reaches its push
\* with the result buffer full (2 x worker count results already produced)
\* stays blocked there for ever: its push is not enabled, no step of the
\* system, pool-wide cancellation included, moves it or makes room, its
\* wg.Done() is never run, so Shutdown's wg.Wait() cannot return and the
\* result stream is never closed.
C37_BlockedPushBlocksShutdown ==
    /\ [](\A w \in Workers :
            BlockedOnPush(w) =>
                /\ ~ENABLED ProcessPush(w)
                /\ ~ENABLED ShutdownWait
                /\ wg > 0
                /\ sdPc \notin {"closeResults", "done"})
    /\ [][\A w \in Workers :
            BlockedOnPush(w) =>
                /\ BlockedOnPush(w)'
                /\ wjob'[w] = wjob[w]
                /\ wg' = wg
                /\ results' = results]_vars

\* Shutdown is waiting, the pool context has been cancelled, and the worker
\* is still blocked with the result of the third job.
C37_Witness ==
    \E w \in Workers :
        /\ BlockedOnPush(w)
        /\ ctxDone
        /\ sdPc = "wait"
        /\ \A k \in 1..Len(results) : pushed[results[k].id] = 1

====
